---- MODULE Spec2Model ----
(***************************************************************************)
(* Model of src/EnphaseEnvoy.py, class EnphaseEnvoyV8Final: the token      *)
(* cache (save_token / load_token), the cloud authenticator (get_token,    *)
(* get_envoy_serial), authenticate() and _make_request().                  *)
(*                                                                         *)
(* The program is single-threaded and synchronous, so every method is one  *)
(* action.  What the network and the file system answer is an input of the *)
(* action, drawn from small sets.  Every action leaves in `last` the trace *)
(* of the call: the state before it, the value returned and the sequence   *)
(* of I/O events the call made, in order.                                  *)
(***************************************************************************)
EXTENDS Integers, Sequences, FiniteSets, TLC

VARIABLES
    token,          \* self.token
    serial,         \* self.serial
    auth,           \* self.session.headers['Authorization']
    enphase_email,  \* self.enphase_email
    file,           \* the content of TOKEN_FILE on disk
    now,            \* datetime.now(), in hours
    last            \* trace of the last call

vars == <<token, serial, auth, enphase_email, file, now, last>>

----------------------------------------------------------------------------
(* Bounds and value sets *)

\* the clock stops advancing here
MaxNow == 47

\* hours that pass between two calls: values that straddle the threshold
TickSteps == {23, 24}

\* timedelta(hours=23) of load_token
FRESH_HOURS == 23

None    == "None"       \* Python None
null    == "null"       \* JSON null
Missing == "MISSING"    \* key absent from the JSON object

Tokens  == {"t1", "t2"}         \* bearer tokens the cloud hands out
Serials == {"s1", "s2"}         \* digit strings
Emails  == {"a@x", "b@x"}

----------------------------------------------------------------------------
(* Python / library primitives *)

\* (mutant) the date part is left out
isoformat_time_only(t) == <<0, t % 24>>

\* datetime.isoformat(): "<date>T<time>", here <<days, hour of day>>
isoformat(t) == <<t \div 24, t % 24>>

\* datetime.fromisoformat(); defined on well-formed stamps only
fromisoformat(s) == s[1] * 24 + s[2]

\* whether fromisoformat() accepts the text (otherwise ValueError)
iso_ok(s) == Len(s) = 2

\* json.dump of a str or None value
json_dump(v) == IF v = None THEN null ELSE v

\* json.load of a JSON string or null
json_load(j) == IF j = null THEN None ELSE j

\* dict.get(key): None when the key is absent
dict_get(j) == IF j = Missing THEN None ELSE json_load(j)

\* Python truth value of a str-or-None: `not x`
Falsy(v) == v \in {None, ""}

\* the Authorization header value f'Bearer {tok}'; NoAuth: header not set
Bearer(tok) == [scheme |-> "Bearer", cred |-> tok]
NoAuth      == [scheme |-> "none",   cred |-> None]

\* str.strip() of a response body: the text without surrounding whitespace
strip(body) == body.text

----------------------------------------------------------------------------
(* The file on disk *)

NoFile  == [kind |-> "none", token |-> Missing, serial |-> Missing,
            timestamp |-> <<>>, email |-> Missing]
Garbage == [kind |-> "garbage", token |-> Missing, serial |-> Missing,
            timestamp |-> <<>>, email |-> Missing]
\* a file that open(TOKEN_FILE, 'r') cannot read
Unreadable == [kind |-> "unreadable", token |-> Missing, serial |-> Missing,
               timestamp |-> <<>>, email |-> Missing]

\* os.path.exists(TOKEN_FILE)
exists(f) == f.kind # "none"

\* what may lie on disk before the program starts: nothing, a file that is
\* not JSON, a file that cannot be read, or a JSON object with any of its
\* keys absent
InitFiles ==
    {NoFile, Garbage, Unreadable} \cup
    [kind : {"json"}, token : {"t1", Missing}, serial : {"s1", null, Missing},
     timestamp : {isoformat(0), <<>>}, email : Emails \cup {Missing}]

\* a record written by an earlier run for account "a@x"
OldRecord == [kind |-> "json", token |-> "t1", serial |-> "s1",
              timestamp |-> isoformat(0), email |-> "a@x"]

\* the files a session starts from: none, not JSON, unreadable, the record
\* of an earlier run, the same with a null serial or with one key absent
FlowFiles ==
    {NoFile, Garbage, Unreadable, OldRecord,
     [OldRecord EXCEPT !.serial = null],
     [OldRecord EXCEPT !.serial = Missing],
     [OldRecord EXCEPT !.token = Missing],
     [OldRecord EXCEPT !.timestamp = <<>>],
     [OldRecord EXCEPT !.email = Missing]}

----------------------------------------------------------------------------
(* I/O events of a call *)

Ev(k, h, r) == [k |-> k, h |-> h, r |-> r]

Count(ev, k) == Cardinality({i \in 1..Len(ev) : ev[i].k = k})

\* the events of kind k, in order
RECURSIVE Only(_, _)
Only(ev, k) ==
    IF ev = <<>> THEN <<>>
    ELSE IF Head(ev).k = k THEN <<Head(ev)>> \o Only(Tail(ev), k)
    ELSE Only(Tail(ev), k)

----------------------------------------------------------------------------
(* The methods.  s is the record [token, serial, auth, file] of what a     *)
(* method reads and writes; a method returns the state after it (st), its  *)
(* return value (ret) and its I/O events (ev).                             *)

SaveOutcomes == {"ok", "open_fail", "write_fail"}

\* save_token(): open(TOKEN_FILE, 'w') then json.dump.  outcome "open_fail":
\* open raises, the file is untouched; "write_fail": the file was truncated
\* by open and the write did not complete.  Every exception is swallowed.
save_token(s, email, t, outcome) ==
    LET token_data == [kind      |-> "json",
                       token     |-> json_dump(s.token),
                       serial    |-> json_dump(s.serial),
                       timestamp |-> isoformat(t),
                       email     |-> json_dump(email)]
    IN  [st |-> [s EXCEPT !.file = CASE outcome = "ok"         -> token_data
                                     [] outcome = "open_fail"  -> s.file
                                     [] outcome = "write_fail" -> Garbage],
         ev |-> <<Ev("save", NoAuth, outcome)>>]

\* where the process may stop inside save_token: before open(), after open()
\* has truncated the file, while json.dump is writing, after the file is closed
CrashPoints == {"before_open", "after_open", "mid_dump", "after_close"}

\* the file that a process stopped inside save_token leaves on disk
save_token_crash(s, email, t, point) ==
    CASE point = "before_open" -> s.file
      [] point = "after_open"  -> Garbage
      [] point = "mid_dump"    -> Garbage
      [] point = "after_close" -> save_token(s, email, t, "ok").st.file

\* if os.path.exists(TOKEN_FILE): os.remove(TOKEN_FILE); rm tells whether
\* os.remove succeeds, its OSError is caught nowhere
invalidate(s, rm) ==
    IF ~exists(s.file) THEN [st |-> s, ret |-> "ok", ev |-> <<>>]
    ELSE IF rm THEN [st |-> [s EXCEPT !.file = NoFile], ret |-> "ok",
                     ev |-> <<Ev("remove", NoAuth, "ok")>>]
    ELSE [st |-> s, ret |-> "raised", ev |-> <<Ev("remove", NoAuth, "raise")>>]

\* (mutant) the account is not compared
same_account_any(f, email) == TRUE

\* token_data.get('email') != self.enphase_email, negated
same_account(f, email) == dict_get(f.email) = email

\* (mutant) the 24 hours of the comment instead of the 23 of the code
expired_24(stamp, t) == t - fromisoformat(stamp) > 24

\* datetime.now() - token_time > timedelta(hours=23)
expired(stamp, t) == t - fromisoformat(stamp) > FRESH_HOURS

\* (mutant) an expired record is deleted by the expiry check
load_token_purge(s, email, t) ==
    LET f    == s.file
        no   == [st |-> s, ret |-> FALSE]
    IN  IF ~exists(f) THEN no
        ELSE IF f.kind # "json" THEN no
        ELSE IF ~same_account(f, email) THEN no
        ELSE IF ~iso_ok(f.timestamp) THEN no
        ELSE IF expired(f.timestamp, t)
             THEN [st |-> [s EXCEPT !.file = NoFile], ret |-> FALSE]
        ELSE IF f.token = Missing THEN no
        ELSE IF f.serial = Missing
             THEN [st  |-> [s EXCEPT !.token = json_load(f.token)],
                   ret |-> FALSE]
        ELSE [st  |-> [s EXCEPT !.token  = json_load(f.token),
                                !.serial = json_load(f.serial),
                                !.auth   = Bearer(json_load(f.token))],
              ret |-> TRUE]

\* (mutant) a record without its serial is adopted with serial None
load_token_lenient(s, email, t) ==
    LET f    == s.file
        no   == [st |-> s, ret |-> FALSE]
    IN  IF ~exists(f) THEN no
        ELSE IF f.kind # "json" THEN no
        ELSE IF ~same_account(f, email) THEN no
        ELSE IF ~iso_ok(f.timestamp) THEN no
        ELSE IF expired(f.timestamp, t) THEN no
        ELSE IF f.token = Missing THEN no
        ELSE [st  |-> [s EXCEPT !.token  = json_load(f.token),
                                !.serial = dict_get(f.serial),
                                !.auth   = Bearer(json_load(f.token))],
              ret |-> TRUE]

\* load_token()
load_token(s, email, t) ==
    LET f    == s.file
        no   == [st |-> s, ret |-> FALSE]
    IN  IF ~exists(f) THEN no
        ELSE IF f.kind # "json" THEN no               \* open or json.load raises
        ELSE IF ~same_account(f, email) THEN no
        ELSE IF ~iso_ok(f.timestamp) THEN no               \* KeyError, ValueError
        ELSE IF expired(f.timestamp, t) THEN no
        ELSE IF f.token = Missing THEN no                  \* KeyError
        ELSE IF f.serial = Missing                         \* KeyError, after
             THEN [st  |-> [s EXCEPT !.token = json_load(f.token)],  \* line 105
                   ret |-> FALSE]
        ELSE [st  |-> [s EXCEPT !.token  = json_load(f.token),
                                !.serial = json_load(f.serial),
                                !.auth   = Bearer(json_load(f.token))],
              ret |-> TRUE]

\* /info.xml: the request fails, or a document whose <sn> elements are
\* listed in document order, each inside the <device> block or outside it
SnTexts == Serials \cup {"x"}
IsDigits(v) == v \in Serials
InfoDocs ==
    { <<>>,
      <<[inDevice |-> TRUE,  sn |-> "s1"]>>,
      <<[inDevice |-> TRUE,  sn |-> "x"]>>,
      <<[inDevice |-> FALSE, sn |-> "s2"], [inDevice |-> TRUE, sn |-> "s1"]>>,
      <<[inDevice |-> TRUE,  sn |-> "s1"], [inDevice |-> FALSE, sn |-> "s2"]>>,
      <<[inDevice |-> FALSE, sn |-> "s2"]>> }

\* what /info.xml answers to a direct call: no answer, or one of the documents
InfoAnswers ==
    {[err |-> TRUE, doc |-> <<>>]} \cup {[err |-> FALSE, doc |-> d] : d \in InfoDocs}
\* the answers drawn in a run of get_token: no answer, a document with the
\* serial, a document without one
InfoResponses ==
    { [err |-> TRUE,  doc |-> <<>>],
      [err |-> FALSE, doc |-> <<[inDevice |-> TRUE, sn |-> "s1"]>>],
      [err |-> FALSE, doc |-> <<[inDevice |-> TRUE, sn |-> "x"]>>] }

\* re.search(r'<sn>(\d+)</sn>', text): the leftmost <sn> with digits only
search_sn(doc) ==
    LET hits == {i \in 1..Len(doc) : IsDigits(doc[i].sn)}
    IN  IF hits = {} THEN None
        ELSE doc[CHOOSE i \in hits : \A j \in hits : i <= j].sn

\* get_envoy_serial()
get_envoy_serial(s, info) ==
    LET e == <<Ev("info", s.auth, IF info.err THEN "timeout" ELSE "ok")>>
    IN  IF info.err THEN [st |-> s, ret |-> None, ev |-> e]
        ELSE LET m == search_sn(info.doc)
             IN  IF m # None
                 THEN [st |-> [s EXCEPT !.serial = m], ret |-> m, ev |-> e]
                 ELSE [st |-> s, ret |-> None, ev |-> e]

\* re.search(r'<sn>(.*?)</sn>', device_block): the first <sn> inside the
\* <device> block, whatever its text
device_sn(doc) ==
    LET hits == {i \in 1..Len(doc) : doc[i].inDevice}
    IN  IF hits = {} THEN Missing
        ELSE doc[CHOOSE i \in hits : \A j \in hits : i <= j].sn

\* get_info(): one GET of /info.xml; info['sn'] is set from the <device>
\* block; only requests.exceptions.RequestException is caught.  r is what
\* session.get does: "ok", "timeout" (a RequestException) or "exc".  Of the
\* dict returned, ret keeps the 'sn' entry (Missing: no such key)
get_info(s, r, doc) ==
    LET e == <<Ev("info", s.auth, r)>>
    IN  CASE r = "ok"      -> [st |-> s, ret |-> device_sn(doc), ev |-> e]
          [] r = "timeout" -> [st |-> s, ret |-> None, ev |-> e]
          [] r = "exc"     -> [st |-> s, ret |-> "raised", ev |-> e]

\* the cloud's answers to one run of get_token
\* login: requests.post or json.loads raises; a status other than 200; a body
\* without 'session_id'; a body with it
LoginOutcomes  == {"raise", "status", "no_session", "ok"}
TokenResponses ==
    [status : {"raise", "500"}, text : {""}, ws : {FALSE}] \cup
    { [status |-> "200", text |-> "t1", ws |-> FALSE],
      [status |-> "200", text |-> "t2", ws |-> TRUE] }
NoInfo == [err |-> TRUE, doc |-> <<>>]
NoTok  == [status |-> "raise", text |-> "", ws |-> FALSE]
\* an answer is drawn only for a call that a run can reach: nothing follows a
\* failed login, no save follows a failed token exchange
CloudInputs ==
    { in \in [login : LoginOutcomes, info : InfoResponses,
              tok : TokenResponses, save : SaveOutcomes] :
        /\ in.login # "ok" => in.info = NoInfo /\ in.tok = NoTok
        /\ in.tok.status # "200" => in.save = "ok" }

\* (mutant) the header is built before the new token is assigned
get_token_stale_header(s, email, t, in) ==
    LET evLogin == <<Ev("login", NoAuth, in.login)>>
    IN  IF in.login # "ok"
        THEN [st |-> s, ret |-> FALSE, ev |-> evLogin]
        ELSE
        LET r  == IF Falsy(s.serial) THEN get_envoy_serial(s, in.info)
                  ELSE [st |-> s, ret |-> None, ev |-> <<>>]
            s1 == r.st
            evTok == <<Ev("tokens", NoAuth, in.tok.status)>>
        IN  IF Falsy(s1.serial)
            THEN [st |-> s1, ret |-> FALSE, ev |-> evLogin \o r.ev]
            ELSE IF in.tok.status # "200"
            THEN [st |-> s1, ret |-> FALSE, ev |-> evLogin \o r.ev \o evTok]
            ELSE
            LET s2 == [s1 EXCEPT !.token = strip(in.tok)]
                sv == save_token(s2, email, t, in.save)
                s3 == [sv.st EXCEPT !.auth = Bearer(s1.token)]
            IN  [st |-> s3, ret |-> TRUE,
                 ev |-> evLogin \o r.ev \o evTok \o sv.ev]

\* (mutant) a failed save fails the authentication
get_token_save_fatal(s, email, t, in) ==
    LET evLogin == <<Ev("login", NoAuth, in.login)>>
    IN  IF in.login # "ok"
        THEN [st |-> s, ret |-> FALSE, ev |-> evLogin]
        ELSE
        LET r  == IF Falsy(s.serial) THEN get_envoy_serial(s, in.info)
                  ELSE [st |-> s, ret |-> None, ev |-> <<>>]
            s1 == r.st
            evTok == <<Ev("tokens", NoAuth, in.tok.status)>>
        IN  IF Falsy(s1.serial)
            THEN [st |-> s1, ret |-> FALSE, ev |-> evLogin \o r.ev]
            ELSE IF in.tok.status # "200"
            THEN [st |-> s1, ret |-> FALSE, ev |-> evLogin \o r.ev \o evTok]
            ELSE
            LET s2 == [s1 EXCEPT !.token = strip(in.tok)]
                sv == save_token(s2, email, t, in.save)
                s3 == [sv.st EXCEPT !.auth = Bearer(sv.st.token)]
            IN  IF in.save # "ok"
                THEN [st |-> sv.st, ret |-> FALSE,
                      ev |-> evLogin \o r.ev \o evTok \o sv.ev]
                ELSE [st |-> s3, ret |-> TRUE,
                      ev |-> evLogin \o r.ev \o evTok \o sv.ev]

\* (mutant) the serial is looked up even when it is known
get_token_always_resolve(s, email, t, in) ==
    LET evLogin == <<Ev("login", NoAuth, in.login)>>
    IN  IF in.login # "ok"
        THEN [st |-> s, ret |-> FALSE, ev |-> evLogin]
        ELSE
        LET r  == get_envoy_serial(s, in.info)
            s1 == r.st
            evTok == <<Ev("tokens", NoAuth, in.tok.status)>>
        IN  IF Falsy(s1.serial)
            THEN [st |-> s1, ret |-> FALSE, ev |-> evLogin \o r.ev]
            ELSE IF in.tok.status # "200"
            THEN [st |-> s1, ret |-> FALSE, ev |-> evLogin \o r.ev \o evTok]
            ELSE
            LET s2 == [s1 EXCEPT !.token = strip(in.tok)]
                sv == save_token(s2, email, t, in.save)
                s3 == [sv.st EXCEPT !.auth = Bearer(sv.st.token)]
            IN  [st |-> s3, ret |-> TRUE,
                 ev |-> evLogin \o r.ev \o evTok \o sv.ev]

\* (mutant) the token is assigned from the response before its status is
\* looked at
get_token_early_assign(s, email, t, in) ==
    LET evLogin == <<Ev("login", NoAuth, in.login)>>
    IN  IF in.login # "ok"
        THEN [st |-> s, ret |-> FALSE, ev |-> evLogin]
        ELSE
        LET r  == IF Falsy(s.serial) THEN get_envoy_serial(s, in.info)
                  ELSE [st |-> s, ret |-> None, ev |-> <<>>]
            s1 == r.st
            evTok == <<Ev("tokens", NoAuth, in.tok.status)>>
        IN  IF Falsy(s1.serial)
            THEN [st |-> s1, ret |-> FALSE, ev |-> evLogin \o r.ev]
            ELSE IF in.tok.status # "200"
            THEN [st |-> [s1 EXCEPT !.token = strip(in.tok)], ret |-> FALSE,
                  ev |-> evLogin \o r.ev \o evTok]
            ELSE
            LET s2 == [s1 EXCEPT !.token = strip(in.tok)]
                sv == save_token(s2, email, t, in.save)
                s3 == [sv.st EXCEPT !.auth = Bearer(sv.st.token)]
            IN  [st |-> s3, ret |-> TRUE,
                 ev |-> evLogin \o r.ev \o evTok \o sv.ev]

\* get_token()
get_token(s, email, t, in) ==
    LET evLogin == <<Ev("login", NoAuth, in.login)>>
    IN  IF in.login # "ok"
        THEN [st |-> s, ret |-> FALSE, ev |-> evLogin]
        ELSE
        LET r  == IF Falsy(s.serial) THEN get_envoy_serial(s, in.info)
                  ELSE [st |-> s, ret |-> None, ev |-> <<>>]
            s1 == r.st
            evTok == <<Ev("tokens", NoAuth, in.tok.status)>>
        IN  IF Falsy(s1.serial)
            THEN [st |-> s1, ret |-> FALSE, ev |-> evLogin \o r.ev]
            ELSE IF in.tok.status # "200"
            THEN [st |-> s1, ret |-> FALSE, ev |-> evLogin \o r.ev \o evTok]
            ELSE
            LET s2 == [s1 EXCEPT !.token = strip(in.tok)]
                sv == save_token(s2, email, t, in.save)
                s3 == [sv.st EXCEPT !.auth = Bearer(sv.st.token)]
            IN  [st |-> s3, ret |-> TRUE,
                 ev |-> evLogin \o r.ev \o evTok \o sv.ev]

\* what the device answers to a GET: a status, a transport error
\* (requests.exceptions.RequestException) or another exception
Responses == {"200", "401", "500", "timeout", "exc"}

Get(h, r) == <<Ev("GET", h, r)>>

\* (mutant) the answer of the probe is not looked at
authenticate_always_cloud(s, email, t, probe, in) ==
    LET l  == load_token(s, email, t)
        el == <<Ev("load", NoAuth, IF l.ret THEN "True" ELSE "False")>>
    IN  IF l.ret
        THEN LET g == Get(l.st.auth, probe)
                 c == get_token(l.st, email, t, in)
             IN  [st |-> c.st, ret |-> c.ret, ev |-> el \o g \o c.ev]
        ELSE LET c == get_token(l.st, email, t, in)
             IN  [st |-> c.st, ret |-> c.ret, ev |-> el \o c.ev]

\* (mutant) the probe is sent again after the renewal
authenticate_reprobe(s, email, t, probe, in) ==
    LET l  == load_token(s, email, t)
        el == <<Ev("load", NoAuth, IF l.ret THEN "True" ELSE "False")>>
    IN  IF l.ret
        THEN LET g == Get(l.st.auth, probe)
             IN  IF probe = "200"
                 THEN [st |-> l.st, ret |-> TRUE, ev |-> el \o g]
                 ELSE LET c == get_token(l.st, email, t, in)
                      IN  [st |-> c.st, ret |-> c.ret,
                           ev |-> el \o g \o c.ev \o Get(c.st.auth, probe)]
        ELSE LET c == get_token(l.st, email, t, in)
             IN  [st |-> c.st, ret |-> c.ret, ev |-> el \o c.ev]

\* authenticate()
authenticate(s, email, t, probe, in) ==
    LET l  == load_token(s, email, t)
        el == <<Ev("load", NoAuth, IF l.ret THEN "True" ELSE "False")>>
    IN  IF l.ret
        THEN LET g == Get(l.st.auth, probe)
             IN  IF probe = "200"
                 THEN [st |-> l.st, ret |-> TRUE, ev |-> el \o g]
                 ELSE LET c == get_token(l.st, email, t, in)
                      IN  [st |-> c.st, ret |-> c.ret, ev |-> el \o g \o c.ev]
        ELSE LET c == get_token(l.st, email, t, in)
             IN  [st |-> c.st, ret |-> c.ret, ev |-> el \o c.ev]

\* response.raise_for_status() then return response; the except clause
\* catches RequestException only
finish(s, ev, r) ==
    [st |-> s, ev |-> ev,
     ret |-> CASE r = "200" -> "200"
               [] r \in {"401", "500", "timeout"} -> "None"
               [] r = "exc" -> "raised"]

\* (mutant) the request is not sent again after the renewal
make_request_noretry(s, email, t, r1, rm, in, r2) ==
    LET g1 == Get(s.auth, r1)
    IN  IF r1 # "401" THEN finish(s, g1, r1)
        ELSE IF exists(s.file) /\ ~rm
        THEN [st |-> s, ret |-> "raised",
              ev |-> g1 \o <<Ev("remove", NoAuth, "raise")>>]
        ELSE
        LET er == IF exists(s.file) THEN <<Ev("remove", NoAuth, "ok")>> ELSE <<>>
            s1 == [s EXCEPT !.file = NoFile]
            c  == get_token(s1, email, t, in)
        IN  IF c.ret
            THEN finish(c.st, g1 \o er \o c.ev, r1)
            ELSE [st |-> c.st, ret |-> "None", ev |-> g1 \o er \o c.ev]

\* (mutant) a 401 on the retried request renews the token once more
make_request_again(s, email, t, r1, rm, in, r2) ==
    LET g1 == Get(s.auth, r1)
    IN  IF r1 # "401" THEN finish(s, g1, r1)
        ELSE IF exists(s.file) /\ ~rm
        THEN [st |-> s, ret |-> "raised",
              ev |-> g1 \o <<Ev("remove", NoAuth, "raise")>>]
        ELSE
        LET er == IF exists(s.file) THEN <<Ev("remove", NoAuth, "ok")>> ELSE <<>>
            s1 == [s EXCEPT !.file = NoFile]
            c  == get_token(s1, email, t, in)
            e2 == g1 \o er \o c.ev \o Get(c.st.auth, r2)
        IN  IF c.ret /\ r2 = "401"
            THEN LET c2 == get_token([c.st EXCEPT !.file = NoFile], email, t, in)
                 IN  finish(c2.st, e2 \o c2.ev \o Get(c2.st.auth, r2), r2)
            ELSE IF c.ret THEN finish(c.st, e2, r2)
            ELSE [st |-> c.st, ret |-> "None", ev |-> g1 \o er \o c.ev]

\* (mutant) a transport error is taken for a rejected token
make_request_renew_on_error(s, email, t, r1, rm, in, r2) ==
    LET g1 == Get(s.auth, r1)
    IN  IF r1 \notin {"401", "timeout"} THEN finish(s, g1, r1)
        ELSE IF exists(s.file) /\ ~rm
        THEN [st |-> s, ret |-> "raised",
              ev |-> g1 \o <<Ev("remove", NoAuth, "raise")>>]
        ELSE
        LET er == IF exists(s.file) THEN <<Ev("remove", NoAuth, "ok")>> ELSE <<>>
            s1 == [s EXCEPT !.file = NoFile]
            c  == get_token(s1, email, t, in)
        IN  IF c.ret
            THEN finish(c.st, g1 \o er \o c.ev \o Get(c.st.auth, r2), r2)
            ELSE [st |-> c.st, ret |-> "None", ev |-> g1 \o er \o c.ev]

\* _make_request(url): r1 answers the first GET, rm tells whether os.remove
\* succeeds, in are the cloud's answers, r2 answers the retried GET
make_request(s, email, t, r1, rm, in, r2) ==
    LET g1 == Get(s.auth, r1)
    IN  IF r1 # "401" THEN finish(s, g1, r1)
        ELSE IF exists(s.file) /\ ~rm
        THEN [st |-> s, ret |-> "raised",
              ev |-> g1 \o <<Ev("remove", NoAuth, "raise")>>]
        ELSE
        LET er == IF exists(s.file) THEN <<Ev("remove", NoAuth, "ok")>> ELSE <<>>
            s1 == [s EXCEPT !.file = NoFile]
            c  == get_token(s1, email, t, in)
        IN  IF c.ret
            THEN finish(c.st, g1 \o er \o c.ev \o Get(c.st.auth, r2), r2)
            ELSE [st |-> c.st, ret |-> "None", ev |-> g1 \o er \o c.ev]

\* what response.json() makes of the body of a 200 response
Bodies == {"json", "not_json"}

\* get_production_json(), and likewise get_api_production(), get_inverters():
\* _make_request, then response.json() with json.JSONDecodeError caught
get_production_json(s, email, t, r1, rm, in, r2, body) ==
    LET r == make_request(s, email, t, r1, rm, in, r2)
    IN  [st  |-> r.st,
         ret |-> IF r.ret = "200" THEN (IF body = "json" THEN "data" ELSE "None")
                 ELSE r.ret,
         ev  |-> r.ev]

----------------------------------------------------------------------------
(* Actions *)

Cur == [token |-> token, serial |-> serial, auth |-> auth, file |-> file]

BoolStr(b) == IF b THEN "True" ELSE "False"

\* the trace a call leaves: the method, the answers it was given (inp), the
\* state before it, what it returned, its I/O events, and the trace before
Trace(op, inp, before, ret, ev) ==
    [op |-> op, inp |-> inp, before |-> before, ret |-> ret, ev |-> ev,
     prev |-> [op |-> last.op, before |-> last.before, ret |-> last.ret,
               ev |-> last.ev]]

NoPrev == [op |-> "none", before |-> Cur, ret |-> "None", ev |-> <<>>]

\* no call has been made, or the trace of the last one was dropped
Rest(op) ==
    [op |-> op, inp |-> <<>>, before |-> Cur, ret |-> "None", ev |-> <<>>,
     prev |-> NoPrev]

Set(st) ==
    /\ token'  = st.token
    /\ serial' = st.serial
    /\ auth'   = st.auth
    /\ file'   = st.file

\* no call is in progress and the trace of the last one was dropped
Idle == last.op \in {"init", "idle"}

\* the caller takes the result of the call; its trace is dropped
Return ==
    /\ ~Idle
    /\ last' = Rest("idle")
    /\ UNCHANGED <<token, serial, auth, enphase_email, file, now>>

\* __init__: a new process for account e; the file on disk stays
NewSession(e) ==
    /\ enphase_email' = e
    /\ token'  = None
    /\ serial' = None
    /\ auth'   = NoAuth
    /\ last'   = [op |-> "init", inp |-> <<>>, ret |-> "None", ev |-> <<>>,
                  prev |-> NoPrev,
                  before |-> [token |-> None, serial |-> None, auth |-> NoAuth,
                              file |-> file]]
    /\ UNCHANGED <<file, now>>

\* time passes between two calls; the trace of the last call is dropped
Tick(d) ==
    /\ now + d <= MaxNow
    /\ now' = now + d
    /\ last' = Rest("idle")
    /\ UNCHANGED <<token, serial, auth, enphase_email, file>>

Authenticate(probe, in) ==
    LET r == authenticate(Cur, enphase_email, now, probe, in)
    IN  /\ Set(r.st)
        /\ last' = Trace("authenticate", [probe |-> probe, in |-> in], Cur,
                        BoolStr(r.ret), r.ev)
        /\ UNCHANGED <<enphase_email, now>>

GetToken(in) ==
    LET r == get_token(Cur, enphase_email, now, in)
    IN  /\ Set(r.st)
        /\ last' = Trace("get_token", [in |-> in], Cur, BoolStr(r.ret), r.ev)
        /\ UNCHANGED <<enphase_email, now>>

MakeRequest(r1, rm, in, r2) ==
    LET r == make_request(Cur, enphase_email, now, r1, rm, in, r2)
    IN  /\ Set(r.st)
        /\ last' = Trace("request", [r1 |-> r1, rm |-> rm, in |-> in, r2 |-> r2], Cur,
                        r.ret, r.ev)
        /\ UNCHANGED <<enphase_email, now>>

GetProductionJson(r1, rm, in, r2, body) ==
    LET r == get_production_json(Cur, enphase_email, now, r1, rm, in, r2, body)
    IN  /\ Set(r.st)
        /\ last' = Trace("get_production_json",
                        [r1 |-> r1, rm |-> rm, in |-> in, r2 |-> r2, body |-> body],
                        Cur, r.ret, r.ev)
        /\ UNCHANGED <<enphase_email, now>>

\* direct calls of the two readers of /info.xml
GetEnvoySerial(info) ==
    LET r == get_envoy_serial(Cur, info)
    IN  /\ Set(r.st)
        /\ last' = Trace("get_envoy_serial", [info |-> info], Cur, r.ret, r.ev)
        /\ UNCHANGED <<enphase_email, now>>

GetInfo(r, doc) ==
    LET g == get_info(Cur, r, doc)
    IN  /\ Set(g.st)
        /\ last' = Trace("get_info", [r |-> r, doc |-> doc], Cur, g.ret, g.ev)
        /\ UNCHANGED <<enphase_email, now>>

\* direct calls of the cache methods
SaveToken(outcome) ==
    LET r == save_token(Cur, enphase_email, now, outcome)
    IN  /\ Set(r.st)
        /\ last' = Trace("save_token", <<outcome>>, Cur, "None", r.ev)
        /\ UNCHANGED <<enphase_email, now>>

LoadToken ==
    LET r == load_token(Cur, enphase_email, now)
    IN  /\ Set(r.st)
        /\ last' = Trace("load_token", <<>>, Cur, BoolStr(r.ret), <<>>)
        /\ UNCHANGED <<enphase_email, now>>

\* the process stops inside save_token; what it held in memory is gone
SaveCrash(point) ==
    /\ file'   = save_token_crash(Cur, enphase_email, now, point)
    /\ token'  = None
    /\ serial' = None
    /\ auth'   = NoAuth
    /\ last'   = Trace("save_crash", <<point>>, Cur, "None", <<>>)
    /\ UNCHANGED <<enphase_email, now>>

\* the delete-if-present step on its own (the force-new-token flag of main)
Invalidate(rm) ==
    LET r == invalidate(Cur, rm)
    IN  /\ Set(r.st)
        /\ last' = Trace("invalidate", <<rm>>, Cur, r.ret, r.ev)
        /\ UNCHANGED <<enphase_email, now>>

Init ==
    /\ enphase_email \in Emails
    /\ token  = None
    /\ serial = None
    /\ auth   = NoAuth
    /\ file \in FlowFiles
    /\ now = 0
    /\ last = Rest("init")

\* answers are drawn only for the calls the handler can reach
AuthInputs ==
    { x \in [probe : Responses, in : CloudInputs] :
        x.probe = "200" => x.in = [login |-> "raise", info |-> NoInfo,
                                   tok |-> NoTok, save |-> "ok"] }

RequestInputs ==
    { x \in [r1 : Responses, rm : BOOLEAN, in : CloudInputs, r2 : Responses] :
        LET in0 == [login |-> "raise", info |-> NoInfo, tok |-> NoTok, save |-> "ok"]
        IN  /\ x.r1 # "401" => x.rm /\ x.in = in0 /\ x.r2 = "200"
            /\ ~x.rm => x.in = in0 /\ x.r2 = "200"
            /\ x.in.tok.status # "200" => x.r2 = "200" }

\* the bodies to try with the answers x of a request: the body is read
\* only from a response that _make_request returned
GetterBodies(x) ==
    IF \/ x.r1 = "200"
       \/ x.r1 = "401" /\ x.rm /\ x.in.tok.status = "200" /\ x.r2 = "200"
    THEN Bodies ELSE {"json"}

\* a call begins when the one before it has returned
Next ==
    \/ Return
    \/ Idle /\ \E e \in Emails : NewSession(e)
    \/ Idle /\ \E d \in TickSteps : Tick(d)
    \/ Idle /\ \E x \in AuthInputs : Authenticate(x.probe, x.in)
    \/ Idle /\ \E in \in CloudInputs : GetToken(in)
    \/ Idle /\ \E x \in RequestInputs : MakeRequest(x.r1, x.rm, x.in, x.r2)
    \/ Idle /\ \E x \in RequestInputs : \E body \in GetterBodies(x) :
                  GetProductionJson(x.r1, x.rm, x.in, x.r2, body)

Spec == Init /\ [][Next]_vars

\* the cache methods on their own, from any session state
InitCache ==
    /\ enphase_email \in Emails
    /\ token  \in Tokens \cup {None}
    /\ serial \in {"s1", None}
    /\ auth   = IF token = None THEN NoAuth ELSE Bearer(token)
    /\ file \in InitFiles
    /\ now = 0
    /\ last = Rest("init")

NextCache ==
    \/ \E e \in Emails : NewSession(e)
    \/ \E d \in TickSteps : Tick(d)
    \/ \E o \in SaveOutcomes : SaveToken(o)
    \/ LoadToken
    \/ \E p \in CrashPoints : SaveCrash(p)
    \/ \E rm \in BOOLEAN : exists(file) /\ Invalidate(rm)
    \/ ~exists(file) /\ Invalidate(TRUE)

SpecCache == InitCache /\ [][NextCache]_vars

\* the readers of /info.xml on their own, from any session state
NextInfo ==
    \/ \E e \in Emails : NewSession(e)
    \/ \E a \in InfoAnswers : GetEnvoySerial(a)
    \/ \E d \in InfoDocs : GetInfo("ok", d)
    \/ \E r \in {"timeout", "exc"} : GetInfo(r, <<>>)

SpecInfo == InitCache /\ [][NextInfo]_vars

----------------------------------------------------------------------------
(* Properties *)

\* the state a call started from is the state it left
Unadopted ==
    /\ token  = last.before.token
    /\ serial = last.before.serial
    /\ auth   = last.before.auth

\* a JSON record with its four keys and a well-formed stamp
WellFormed(f) ==
    /\ f.kind = "json"
    /\ f.token # Missing
    /\ f.serial # Missing
    /\ f.email # Missing
    /\ iso_ok(f.timestamp)

\* now - issuedAt of a well-formed record
Age(f, t) == t - fromisoformat(f.timestamp)

\* C1: a call of load_token that finds a record whose account identifier is
\* not the configured account email returns False and adopts nothing of it
\* (token, serial and Authorization header stay), whatever the record's age.
C1_MismatchIsAbsent ==
    ( /\ last.op = "load_token"
      /\ last.before.file.kind = "json"
      /\ last.before.file.email # json_dump(enphase_email) )
    => last.ret = "False" /\ Unadopted

\* C1 witness: a well-formed, fresh record of the other account was refused
C1_Witness ==
    /\ last.op = "load_token"
    /\ WellFormed(last.before.file)
    /\ last.before.file.email \in Emails \ {enphase_email}
    /\ Age(last.before.file, now) <= FRESH_HOURS
    /\ last.ret = "False"

\* C2: a call of load_token that finds a record older than 23 hours returns
\* False, also when the record is well-formed and of the configured account.
C2_StaleIsAbsent ==
    ( /\ last.op = "load_token"
      /\ last.before.file.kind = "json"
      /\ iso_ok(last.before.file.timestamp)
      /\ Age(last.before.file, now) > 23 )
    => last.ret = "False" /\ Unadopted

\* C2 witness: a well-formed record of the configured account, 24 hours old,
\* was refused
C2_Witness ==
    /\ last.op = "load_token"
    /\ WellFormed(last.before.file)
    /\ last.before.file.email = enphase_email
    /\ Age(last.before.file, now) = 24
    /\ last.ret = "False"

\* C3: load_token called right after a save_token that wrote the record
\* returns True and yields the token and the serial the session held when it
\* saved.
C3_RoundTrip ==
    ( /\ last.op = "load_token"
      /\ last.prev.op = "save_token"
      /\ last.prev.ev[1].r = "ok" )
    => /\ last.ret = "True"
       /\ token  = last.prev.before.token
       /\ serial = last.prev.before.serial
       /\ auth   = Bearer(last.prev.before.token)

\* C3 witness: a token saved at hour 24 over a record of another content was
\* read back
C3_Witness ==
    /\ last.op = "load_token"
    /\ last.prev.op = "save_token"
    /\ last.prev.ev[1].r = "ok"
    /\ last.prev.before.file # file
    /\ now = 24
    /\ token \in Tokens
    /\ last.ret = "True"

\* the GETs of the last call, in order
Gets == Only(last.ev, "GET")

\* runs of get_token in the last call: each run posts the login first
AuthRuns == Count(last.ev, "login")

\* a run of get_token in the last call got its token
AuthOk == \E i \in 1..Len(last.ev) : last.ev[i].k = "tokens" /\ last.ev[i].r = "200"

\* the last call was a request whose first GET was answered 401
Rejected == last.op = "request" /\ last.inp.r1 = "401"

\* C4: a request whose first GET is answered 401, whose renewal succeeds and
\* whose device answers 200 to the retry returns that 200 response, after
\* exactly one run of get_token and exactly two GETs.
C4_RenewThenSuccess ==
    (Rejected /\ AuthOk /\ last.inp.r2 = "200")
    => /\ last.ret = "200"
       /\ AuthRuns = 1
       /\ Len(Gets) = 2
       /\ Gets[2].r = "200"
       /\ last.ev[Len(last.ev)] = Gets[2]

\* C4 witness: 401, renewal with another token than the rejected one, 200
C4_Witness ==
    /\ Rejected /\ AuthOk /\ last.inp.r2 = "200"
    /\ last.ret = "200"
    /\ last.before.token \in Tokens
    /\ token # last.before.token

\* C5: a request answered 401 on its first GET and 401 again on the GET
\* retried after a successful renewal returns None without a third GET or a
\* second renewal; whatever the device answers, one request sends at most two
\* GETs and runs get_token at most once.
C5_BoundedRetry ==
    /\ (Rejected /\ AuthOk /\ last.inp.r2 = "401")
         => last.ret = "None" /\ Len(Gets) = 2 /\ AuthRuns = 1
    /\ last.op = "request" => Len(Gets) <= 2 /\ AuthRuns <= 1

\* C5 witness: 401, renewal, 401 again, None
C5_Witness ==
    /\ Rejected /\ AuthOk /\ last.inp.r2 = "401"
    /\ Len(Gets) = 2
    /\ last.ret = "None"

\* the record was removed before get_token posted the login
RemovedBeforeLogin ==
    \E i, j \in 1..Len(last.ev) :
        /\ i < j
        /\ last.ev[i].k = "remove" /\ last.ev[i].r = "ok"
        /\ last.ev[j].k = "login"

\* C6: on a 401 the request first removes the persisted record, then runs
\* get_token exactly once; when that run fails the request returns None, is
\* not sent again and leaves no record on disk.
C6_InvalidateThenRenewOnce ==
    Rejected
    => /\ AuthRuns = 1
       /\ exists(last.before.file) => RemovedBeforeLogin
       /\ ~AuthOk => last.ret = "None" /\ Len(Gets) = 1 /\ ~exists(file)

\* the kinds of the events of the last call, in order
Kinds == [i \in 1..Len(last.ev) |-> last.ev[i].k]

\* the last call was authenticate() and found a usable record: well-formed,
\* of the configured account and not older than 23 hours
CacheHit ==
    /\ last.op = "authenticate"
    /\ WellFormed(last.before.file)
    /\ last.before.file.email = enphase_email
    /\ Age(last.before.file, now) <= 23

\* C7: authenticate() that finds a usable cached record and whose probe is
\* answered 200 returns True with the cached token in use, posts neither the
\* login nor the token exchange, and does not rewrite the record.
C7_CachedTokenAdopted ==
    (CacheHit /\ last.inp.probe = "200")
    => /\ last.ret = "True"
       /\ Kinds = <<"load", "GET">>
       /\ file = last.before.file
       /\ token = json_load(file.token)
       /\ auth = Bearer(token)
       /\ Gets[1].h = auth

\* C7 witness: a session without a token adopted the cached one
C7_Witness ==
    /\ CacheHit /\ last.inp.probe = "200"
    /\ last.before.token = None
    /\ token \in Tokens
    /\ last.ret = "True"

\* the token the cloud handed out in the last call
Issued == strip(last.inp.in.tok)

\* the record save_token persists for the session as it is now
Persisted ==
    [kind |-> "json", token |-> json_dump(token), serial |-> json_dump(serial),
     timestamp |-> isoformat(now), email |-> json_dump(enphase_email)]

\* every request made from the current state sends the issued token on its
\* first GET and, when that GET is answered 200, returns the response with
\* no further I/O
NextRequestUsesIssued ==
    \A x \in RequestInputs :
        LET r == make_request(Cur, enphase_email, now, x.r1, x.rm, x.in, x.r2)
        IN  /\ r.ev[1] = Ev("GET", Bearer(Issued), x.r1)
            /\ x.r1 = "200" => r.ret = "200" /\ Len(r.ev) = 1

\* C8: authenticate() that loads a cached token and whose probe is not
\* answered 200 runs get_token from the login on: login, the serial lookup
\* only if the serial is unknown, token exchange, save.  When that run
\* succeeds, authenticate() returns True, the session and its header hold the
\* issued token, and a request made next sends the issued token and, answered
\* 200, returns on its first GET without renewal.
C8_ProbeRejected ==
    ( /\ last.op = "authenticate"
      /\ last.ev[1].r = "True"
      /\ last.inp.probe # "200" )
    => /\ AuthRuns = 1
       /\ SubSeq(Kinds, 1, 3) = <<"load", "GET", "login">>
       /\ AuthOk =>
            /\ last.ret = "True"
            /\ Kinds = IF Falsy(json_load(last.before.file.serial))
                       THEN <<"load", "GET", "login", "info", "tokens", "save">>
                       ELSE <<"load", "GET", "login", "tokens", "save">>
            /\ token = Issued
            /\ auth = Bearer(Issued)
            /\ last.inp.in.save = "ok" => file = Persisted
            /\ NextRequestUsesIssued

\* C8 witness: the probe with the cached token was answered 401 and the cloud
\* issued another token
C8_Witness ==
    /\ last.op = "authenticate"
    /\ last.ev[1].r = "True"
    /\ last.inp.probe = "401"
    /\ AuthOk
    /\ Gets[1].h = Bearer("t1")
    /\ token = "t2"
    /\ last.ret = "True"

\* C9: authenticate() whose login post is answered with a status other than
\* 200 returns False, saves nothing and leaves the file as it was before the
\* call.
C9_LoginRejected ==
    ( /\ last.op = "authenticate"
      /\ \E i \in 1..Len(last.ev) : last.ev[i] = Ev("login", NoAuth, "status") )
    => /\ last.ret = "False"
       /\ Count(last.ev, "save") = 0
       /\ Count(last.ev, "tokens") = 0
       /\ file = last.before.file

\* C9 witness: the login was refused while an expired record of the account
\* lay on disk
C9_Witness ==
    /\ last.op = "authenticate"
    /\ \E i \in 1..Len(last.ev) : last.ev[i] = Ev("login", NoAuth, "status")
    /\ WellFormed(file)
    /\ file.email = enphase_email
    /\ Age(file, now) > 23
    /\ last.ret = "False"

\* C10: a request whose GET fails with a transport error returns None without
\* running get_token and leaves the file as it was; a transport error on any
\* GET of a request ends the request with None, nothing is renewed after it.
C10_TransportError ==
    /\ (last.op = "request" /\ last.inp.r1 = "timeout")
         => /\ last.ret = "None"
            /\ Kinds = <<"GET">>
            /\ file = last.before.file
            /\ Unadopted
    /\ last.op = "request"
         => \A i \in 1..Len(last.ev) :
                (last.ev[i].k = "GET" /\ last.ev[i].r = "timeout")
                => i = Len(last.ev) /\ last.ret = "None"

\* C10 witness: a request of a session with a token and a record on disk
\* timed out
C10_Witness ==
    /\ last.op = "request"
    /\ last.inp.r1 = "timeout"
    /\ exists(file)
    /\ token \in Tokens
    /\ last.ret = "None"

\* C11: when the process stops at any point inside save_token, the file left
\* on disk is the complete record that was there before or the complete new
\* record, never a truncated, empty or partly written one.
C11_CrashAtomicSave ==
    last.op = "save_crash"
    => \/ file = last.before.file
       \/ file = save_token(last.before, enphase_email, now, "ok").st.file

\* C14: the delete-if-present step raises no error and leaves no record on
\* disk, also when it is run twice in a row; with no record on disk it does
\* nothing.
C14_InvalidateIdempotent ==
    last.op = "invalidate"
    => /\ last.ret = "ok"
       /\ ~exists(file)
       /\ Unadopted
       /\ ~exists(last.before.file) => last.ev = <<>>

\* the Authorization header of the GET that the next request sends first
NextGetHeader ==
    make_request(Cur, enphase_email, now, "200", TRUE,
                 [login |-> "raise", info |-> NoInfo, tok |-> NoTok, save |-> "ok"],
                 "200").ev[1].h

\* the last call ran save_token and the record was not written
SaveFailed ==
    \E i \in 1..Len(last.ev) : last.ev[i].k = "save" /\ last.ev[i].r # "ok"

\* C12: when the login and the token exchange succeed and save_token fails
\* to write the record, get_token still returns True (and so does the
\* authenticate that ran it), the session holds the new token and the
\* Authorization header carries it; the GET retried by a request that renewed
\* this way, and the next request of the run, carry the new token.
C12_PersistFailureNonFatal ==
    (last.op \in {"get_token", "authenticate", "request"} /\ AuthOk /\ SaveFailed)
    => /\ token = Issued
       /\ auth = Bearer(Issued)
       /\ last.op \in {"get_token", "authenticate"} => last.ret = "True"
       /\ last.op = "request" => Len(Gets) = 2 /\ Gets[2].h = Bearer(Issued)
       /\ NextGetHeader = Bearer(Issued)

\* C12 witness: get_token got a token, the write of the record failed half way
C12_Witness ==
    /\ last.op = "get_token" /\ AuthOk /\ SaveFailed
    /\ last.inp.in.save = "write_fail"
    /\ last.ret = "True"
    /\ file = Garbage
    /\ token = Issued
    /\ last.before.token # Issued

\* no record can be loaded from f: there is no file, it cannot be read, it
\* is not JSON, or one of the four keys is absent
Unusable(f) ==
    \/ f.kind # "json"
    \/ Missing \in {f.token, f.serial, f.email}
    \/ ~iso_ok(f.timestamp)

\* C13: for a missing file, an unreadable file, a file that is not JSON and
\* a record with one of its keys absent, load_token returns False without
\* raising, and authenticate() goes on as on a cache miss: no probe, then
\* the run of get_token that a session without a file makes, whose result
\* authenticate returns.
C13_LoadNeverRaises ==
    (last.op = "authenticate" /\ Unusable(last.before.file))
    => LET c == get_token(last.before, enphase_email, now, last.inp.in)
       IN  /\ last.ev[1] = Ev("load", NoAuth, "False")
           /\ Tail(last.ev) = c.ev
           /\ Count(last.ev, "GET") = 0
           /\ last.ret = BoolStr(c.ret)

\* C13 witness: the record on disk has no timestamp key; authenticate got a
\* token from the cloud
C13_Witness ==
    /\ last.op = "authenticate"
    /\ last.before.file = [OldRecord EXCEPT !.timestamp = <<>>]
    /\ AuthOk
    /\ last.ret = "True"

\* C15: no failure of a step of authenticate(), of get_token, of a request
\* (a failure to delete the cache file on the 401 path and an error of the
\* retried GET included) or of a telemetry getter leaves the call as an
\* uncaught error: the call returns to its caller.
C15_FailuresSurfaceAsAbsent ==
    last.op \in {"authenticate", "get_token", "request", "get_production_json"}
    => last.ret # "raised"

\* how a failed run of get_token ended: at the login, at the serial lookup,
\* at the token exchange
FailedCredentials ==
    Len(last.ev) = 1 /\ last.ev[1].r # "ok"
FailedDevice ==
    /\ last.ev[1].r = "ok"
    /\ Count(last.ev, "tokens") = 0
    /\ Falsy(serial)
    /\ last.ev[Len(last.ev)].k = "info"
FailedExchange ==
    /\ last.ev[Len(last.ev)].k = "tokens"
    /\ last.ev[Len(last.ev)].r # "200"

\* C16: a run of get_token posts the login exactly once and first; reads the
\* device info at most once, right after a login that returned a session id
\* and exactly when the serial is not known; posts the token exchange at most
\* once, only after such a login and with a known serial; calls save_token
\* only after the token endpoint answered 200, and last.  The run ends
\* Authenticated (True, the issued token held and in the header) or failed
\* (False, token and header untouched) at exactly one of the three steps.
C16_LinearAuthenticator ==
    last.op = "get_token"
    => /\ Kinds \in {<<"login">>,
                     <<"login", "info">>,
                     <<"login", "tokens">>,
                     <<"login", "info", "tokens">>,
                     <<"login", "tokens", "save">>,
                     <<"login", "info", "tokens", "save">>}
       /\ Len(Kinds) > 1 => last.ev[1].r = "ok"
       /\ last.ev[1].r = "ok" => (Count(last.ev, "info") = 1 <=> Falsy(last.before.serial))
       /\ Count(last.ev, "tokens") = 1 => ~Falsy(serial)
       /\ Count(last.ev, "save") = 1 <=> AuthOk
       /\ last.ret \in {"True", "False"}
       /\ last.ret = "True" <=> AuthOk
       /\ last.ret = "True" => token = Issued /\ auth = Bearer(Issued)
       /\ last.ret = "False"
          => /\ token = last.before.token
             /\ auth = last.before.auth
             /\ FailedCredentials \/ FailedDevice \/ FailedExchange
             /\ ~(FailedCredentials /\ FailedDevice)
             /\ ~(FailedCredentials /\ FailedExchange)
             /\ ~(FailedDevice /\ FailedExchange)

\* C16 witness: a run that resolved the serial, got its token and saved it
C16_Witness ==
    /\ last.op = "get_token"
    /\ Kinds = <<"login", "info", "tokens", "save">>
    /\ last.ret = "True"
    /\ Falsy(last.before.serial)
    /\ serial \in Serials

\* the record the last call started with is a complete record of the
\* configured account that load's expiry check rejects
ExpiredBefore ==
    /\ WellFormed(last.before.file)
    /\ dict_get(last.before.file.email) = enphase_email
    /\ Age(last.before.file, now) > FRESH_HOURS

\* the record is gone, or it is the whole record saved after a successful
\* authentication
GoneOrReplaced == ~exists(file) \/ (AuthOk /\ file = Persisted)

\* C17: an authenticate() whose load finds the record expired deletes it, a
\* request that takes the 401 path deletes it, and every other change of the
\* file is the replacement of the whole record by save_token after a
\* successful authentication.
C17_RecordLifecycle ==
    last.op \in {"authenticate", "get_token", "request", "get_production_json"}
    => /\ (last.op = "authenticate" /\ ExpiredBefore) => GoneOrReplaced
       /\ (last.op = "request" /\ last.inp.r1 = "401") => GoneOrReplaced
       /\ file # last.before.file => GoneOrReplaced

\* the Authorization header that goes with a session token
HeaderOf(tok) == IF tok = None THEN NoAuth ELSE Bearer(tok)

\* C18: every GET of a request and the probe of authenticate() carry the
\* token the session holds when the GET is sent: the first GET of a request
\* the token held before the call, the probe the token just loaded, the GET
\* retried after a renewal the renewed token.
C18_HeaderBeforeRequest ==
    /\ last.op \in {"request", "get_production_json"}
       => /\ Gets[1].h = HeaderOf(last.before.token)
          /\ Len(Gets) = 2 => Gets[2].h = Bearer(Issued) /\ token = Issued
    /\ (last.op = "authenticate" /\ Len(Gets) = 1)
       => Gets[1].h = Bearer(json_load(last.before.file.token))

\* the serial inside the device block: its <sn>, when that is a digit string
DeviceSerial(doc) ==
    IF IsDigits(device_sn(doc)) THEN device_sn(doc) ELSE None

\* C19: get_envoy_serial sends exactly one request; with no answer it returns
\* None; with a document it returns (and keeps as the session's serial) the
\* digit serial inside the device block, also when an <sn> with another
\* serial stands outside the block, before or after it, and None when the
\* block has none.
C19_SerialFromDeviceBlock ==
    last.op = "get_envoy_serial"
    => /\ Len(last.ev) = 1
       /\ last.ev[1].k = "info"
       /\ last.inp.info.err => last.ret = None /\ serial = last.before.serial
       /\ ~last.inp.info.err
          => /\ last.ret = DeviceSerial(last.inp.info.doc)
             /\ last.ret # None => serial = last.ret
             /\ last.ret = None => serial = last.before.serial

\* the network calls of the last call: GETs to the device, posts to the cloud
NetworkCalls ==
    Count(last.ev, "GET") + Count(last.ev, "info")
    + Count(last.ev, "login") + Count(last.ev, "tokens")

\* C20: with every network call answered or timed out, authenticate() ends
\* after at most one probe, one login, one device-info read and one token
\* exchange, and a request after at most two GETs and one run of get_token
\* (one login, one device-info read, one token exchange), whatever the
\* endpoints answer.
C20_BoundedNetworkCalls ==
    /\ last.op = "authenticate"
       => /\ Count(last.ev, "GET") <= 1
          /\ Count(last.ev, "login") <= 1
          /\ Count(last.ev, "info") <= 1
          /\ Count(last.ev, "tokens") <= 1
          /\ NetworkCalls <= 4
          /\ last.ret \in {"True", "False"}
    /\ last.op \in {"request", "get_production_json"}
       => /\ Count(last.ev, "GET") <= 2
          /\ AuthRuns <= 1
          /\ Count(last.ev, "info") <= 1
          /\ Count(last.ev, "tokens") <= 1
          /\ NetworkCalls <= 5
          /\ last.ret \in {"200", "data", "None", "raised"}

\* C20 witness: a request that is rejected again after a renewal that made
\* every network call it can make
C20_Witness ==
    /\ last.op = "request"
    /\ NetworkCalls = 5
    /\ last.inp.r2 = "401"
    /\ last.ret = "None"

\* C21: a call of load_token that returns False (no file, a file that is not
\* a record, a record with a key absent, of another account, or expired)
\* leaves token, serial and Authorization header as they were; a call that
\* returns True has adopted all three from the record.
C21_LoadFrame ==
    last.op = "load_token"
    => /\ last.ret = "False" => Unadopted
       /\ last.ret = "True"
          => /\ token  = json_load(last.before.file.token)
             /\ serial = json_load(last.before.file.serial)
             /\ auth   = Bearer(token)

\* C22: a run of get_token that fails (login raises or is refused, no
\* session id, serial not resolved, token exchange raises or is refused)
\* leaves the token, the Authorization header and the file as they were;
\* the serial is as before or the one just resolved.  The token changes only
\* in a run whose token endpoint answered 200.
C22_FailedAuthFrame ==
    last.op = "get_token"
    => /\ last.ret = "False"
          => /\ token = last.before.token
             /\ auth = last.before.auth
             /\ file = last.before.file
             /\ serial # last.before.serial
                => /\ Falsy(last.before.serial)
                   /\ serial \in Serials
                   /\ Count(last.ev, "info") = 1
       /\ token # last.before.token => AuthOk

\* C22 witness: the run resolved the serial and was refused by the token
\* endpoint, in a session that held a token and a record
C22_Witness ==
    /\ last.op = "get_token"
    /\ last.ret = "False"
    /\ FailedExchange
    /\ serial # last.before.serial
    /\ last.before.token \in Tokens
    /\ exists(last.before.file)

\* authenticate() or a request has just returned successfully
ReturnedOk ==
    \/ last.op = "authenticate" /\ last.ret = "True"
    \/ last.op = "request" /\ last.ret = "200"

\* a record of the configured account is on disk
RecordOfAccount == file.kind = "json" /\ dict_get(file.email) = enphase_email

\* C23: whenever authenticate() or a request has just returned successfully
\* and a record of the configured account is on disk, the token of the
\* record is the token the session holds and the one in the Authorization
\* header, whatever calls came before and also when saves fail.
C23_CacheMatchesSession ==
    (ReturnedOk /\ RecordOfAccount)
    => /\ dict_get(file.token) = token
       /\ auth = Bearer(token)

====
